---- MODULE Spec2Model ----
(***************************************************************************)
(* AnchoredPopoverComponent (src/assets/anchored-popover.js): a custom     *)
(* element that inlines the trigger's position on its popover as four CSS  *)
(* custom properties and optionally closes the popover on window resize.   *)
(*                                                                         *)
(* The widget's code runs on a single-threaded event loop, so every        *)
(* callback (connectedCallback, the beforetoggle handler, the debounced    *)
(* resize execution, the idle callback, disconnectedCallback) is one       *)
(* atomic action.  The popover platform, the window and the clock are the  *)
(* environment.                                                            *)
(***************************************************************************)
EXTENDS Integers, Sequences, FiniteSets, TLC

\* ------------------------------------------------------------------ bounds
\* connectedCallback runs at most MaxConnects times in a behaviour.
MaxConnects == 2
\* A resize burst holds at most MaxBurst events.
MaxBurst == 3
\* The clock advances in steps of TickMs milliseconds.
TickMs == 50
\* The module is evaluated at most MaxEvaluations times in a behaviour.
MaxEvaluations == 2
\* Coordinates of the recompute specification range over -MaxCoord..MaxCoord
\* (and the values of the documented scenario).
MaxCoord == 1

\* ------------------------------------------------------- program constants
\* debounce(..., 100): the debounce window in milliseconds.
DebounceWait == 100

NoTimer == 0 - 1

\* ---------------------------------------------------------------- geometry
Rect(t, l, r, b) == [top |-> t, left |-> l, right |-> r, bottom |-> b]
Viewport(w, h) == [innerWidth |-> w, innerHeight |-> h]

\* The geometries the window and the trigger move between in Spec: the
\* scenario of the specification, the same trigger in a smaller window, and
\* a trigger scrolled partly out of the window (negative offsets).
Geometries ==
    { [rect |-> Rect(50, 20, 120, 80),    viewport |-> Viewport(1000, 800)],
      [rect |-> Rect(50, 20, 120, 80),    viewport |-> Viewport(800, 600)],
      [rect |-> Rect(0 - 10, 5, 1005, 20), viewport |-> Viewport(1000, 800)] }

CoordValues == ((0 - MaxCoord)..MaxCoord) \cup {20, 50, 80, 120}
SizeValues == (0..MaxCoord) \cup {800, 1000}

\* The geometries of SpecRecompute: every rectangle of non-negative width and
\* height over CoordValues, in every viewport over SizeValues.
GridGeometries ==
    { [rect |-> Rect(t, l, r, b), viewport |-> Viewport(w, h)] :
        <<t, l, r, b, w, h>> \in
          { q \in CoordValues \X CoordValues \X CoordValues \X CoordValues
                    \X SizeValues \X SizeValues :
              q[2] <= q[3] /\ q[1] <= q[4] } }

\* -------------------------------------------------- number <-> string
DigitChars == <<"0", "1", "2", "3", "4", "5", "6", "7", "8", "9">>

RECURSIVE NatToString(_)
NatToString(n) ==
    IF n < 10 THEN <<DigitChars[n + 1]>>
    ELSE NatToString(n \div 10) \o <<DigitChars[(n % 10) + 1]>>

\* `${n}`: the decimal string of a number, with a leading "-" when negative.
NumberToString(n) ==
    IF n < 0 THEN <<"-">> \o NatToString(0 - n) ELSE NatToString(n)

DigitValue(c) == CHOOSE d \in 0..9 : DigitChars[d + 1] = c

RECURSIVE ParseNat(_)
ParseNat(s) ==
    IF Len(s) = 1 THEN DigitValue(s[1])
    ELSE 10 * ParseNat(SubSeq(s, 1, Len(s) - 1)) + DigitValue(s[Len(s)])

\* The number a consumer of the custom property reads back from its value.
ParseNumber(s) ==
    IF s[1] = "-" THEN 0 - ParseNat(Tail(s)) ELSE ParseNat(s)

\* A custom property that was never set.
Unset == << >>
NoStyle == [top |-> Unset, right |-> Unset, bottom |-> Unset, left |-> Unset]

\* ------------------------------------------------------------------- state
VARIABLES
    attr,           \* data-close-on-resize: whether present, and its value
    refs,           \* this.refs: which of popover and trigger are present
    connected,      \* the element is attached
    connects,       \* number of connectedCallback runs so far
    popoverOpen,    \* popover.matches(':popover-open')
    windowListeners,\* registrations of #resizeListener for 'resize' on window
    toggleHandlers, \* beforetoggle handlers installed on the popover
    idlePending,    \* idle callbacks requested and not yet run
    rect,           \* trigger.getBoundingClientRect()
    viewport,       \* window.innerWidth, window.innerHeight
    style,          \* --anchor-top/right/bottom/left on the popover
    timer,          \* debounce timeout: NoTimer, or milliseconds left
    threw,          \* a callback of the widget raised an error
    defined,        \* customElements.get('anchored-popover-component') is set
    defineCalls,    \* customElements.define calls made by the module
    evaluations,    \* evaluations of the module so far
    \* history variables
    lastOp,         \* the operation of the last step
    recomputes,     \* #updatePosition calls made by the last step
    styleAtAttach,  \* the popover's properties when window.addEventListener last ran
    sinceResize,    \* milliseconds since the last resize event (capped)
    burstOk,        \* every event of the current burst reached the listener
                    \* with the flag set and the popover open
    burstLen,       \* resize events in the current burst (0 unless burstOk)
    timerOwner,     \* the event of the burst that armed the timer (0: untracked)
    burstExec,      \* the latest event of the burst whose execution ran (0: none)
    burstCloses     \* close actions performed by executions of the burst

vars == << attr, refs, connected, connects, popoverOpen, windowListeners,
           toggleHandlers, idlePending, rect, viewport, style, timer, threw,
           defined, defineCalls, evaluations, lastOp, recomputes, styleAtAttach, sinceResize, burstLen, burstOk,
           timerOwner, burstExec, burstCloses >>

\* What the widget's callbacks read and write, threaded through one callback.
W == [ style |-> style, listeners |-> windowListeners, open |-> popoverOpen,
       handlers |-> toggleHandlers, idle |-> idlePending,
       timer |-> timer, threw |-> threw, recomputes |-> 0,
       defined |-> defined, defineCalls |-> defineCalls,
       evaluations |-> evaluations,
       styleAtAttach |-> styleAtAttach, timerOwner |-> timerOwner,
       burstExec |-> burstExec, burstCloses |-> burstCloses ]

Commit(w) ==
    /\ style' = w.style
    /\ windowListeners' = w.listeners
    /\ popoverOpen' = w.open
    /\ toggleHandlers' = w.handlers
    /\ idlePending' = w.idle
    /\ timer' = w.timer
    /\ threw' = w.threw
    /\ defined' = w.defined
    /\ defineCalls' = w.defineCalls
    /\ evaluations' = w.evaluations
    /\ recomputes' = w.recomputes
    /\ styleAtAttach' = w.styleAtAttach
    /\ timerOwner' = w.timerOwner
    /\ burstExec' = w.burstExec
    /\ burstCloses' = w.burstCloses

\* ------------------------------------------------------- the widget's code
AttrStates ==
    { [present |-> FALSE, value |-> ""],       \* <anchored-popover-component>
      [present |-> TRUE,  value |-> ""],       \* ... data-close-on-resize>
      [present |-> TRUE,  value |-> "true"] }  \* ... data-close-on-resize="true">

\* this.dataset.closeOnResize used as a condition: undefined when the
\* attribute is absent, else its value; undefined and "" are falsy.
closeOnResize == attr.present /\ attr.value # ""

\* writeAnchors with the right offset taken from the rectangle as it is.
writeAnchorsRightEdge(w) ==
    IF ~refs.popover \/ ~refs.trigger
    THEN [w EXCEPT !.threw = TRUE]
    ELSE [w EXCEPT !.style =
            [ top    |-> NumberToString(rect.top),
              right  |-> NumberToString(rect.right),
              bottom |-> NumberToString(viewport.innerHeight - rect.bottom),
              left   |-> NumberToString(rect.left) ]]

\* writeAnchors measuring the right offset from the value it wrote before.
writeAnchorsFromPrevious(w) ==
    IF ~refs.popover \/ ~refs.trigger
    THEN [w EXCEPT !.threw = TRUE]
    ELSE [w EXCEPT !.style =
            [ top    |-> NumberToString(rect.top),
              right  |-> NumberToString(viewport.innerWidth -
                            (IF w.style.right = Unset THEN rect.right
                             ELSE ParseNumber(w.style.right))),
              bottom |-> NumberToString(viewport.innerHeight - rect.bottom),
              left   |-> NumberToString(rect.left) ]]

\* Lines 33-37: read the trigger's rectangle, write the four properties.
\* Reading a member of a missing reference raises a TypeError.
writeAnchors(w) ==
    IF ~refs.popover \/ ~refs.trigger
    THEN [w EXCEPT !.threw = TRUE]
    ELSE [w EXCEPT !.style =
            [ top    |-> NumberToString(rect.top),
              right  |-> NumberToString(viewport.innerWidth - rect.right),
              bottom |-> NumberToString(viewport.innerHeight - rect.bottom),
              left   |-> NumberToString(rect.left) ]]

\* updatePosition without the test of the references.
updatePositionUnguarded(w) == writeAnchors([w EXCEPT !.recomputes = @ + 1])

\* #updatePosition
updatePosition(w) ==
    LET w1 == [w EXCEPT !.recomputes = @ + 1]
    IN  IF ~refs.popover \/ ~refs.trigger THEN w1 ELSE writeAnchors(w1)

\* addEventListener handed a new function on every call: each call registers.
addEventListenerFreshClosure(w) ==
    [w EXCEPT !.listeners = @ + 1,
              !.styleAtAttach = w.style]

\* window.addEventListener('resize', this.#resizeListener): the same callback
\* is registered at most once.
addEventListener(w) ==
    [w EXCEPT !.listeners = IF @ = 0 THEN 1 ELSE @,
              !.styleAtAttach = w.style]

\* window.removeEventListener('resize', this.#resizeListener)
removeEventListener(w) ==
    [w EXCEPT !.listeners = IF @ > 0 THEN @ - 1 ELSE 0]

\* beforetoggleHandler that attaches the listener before it recomputes.
beforetoggleHandlerListenFirst(w, newState) ==
    IF newState = "open" THEN updatePosition(addEventListener(w))
    ELSE updatePosition(removeEventListener(w))

\* beforetoggleHandler that recomputes on a transition to open only.
beforetoggleHandlerOpenOnly(w, newState) ==
    IF newState = "open" THEN addEventListener(updatePosition(w))
    ELSE removeEventListener(w)

\* beforetoggleHandler that never removes the listener.
beforetoggleHandlerAddOnly(w, newState) ==
    LET w1 == updatePosition(w)
    IN  IF newState = "open" THEN addEventListener(w1) ELSE w1

\* The beforetoggle handler connectedCallback installs on the popover.
beforetoggleHandler(w, newState) ==
    LET w1 == updatePosition(w)
    IN  IF newState = "open" THEN addEventListener(w1)
        ELSE removeEventListener(w1)

\* The popover dispatches beforetoggle to each installed handler in turn.
RECURSIVE dispatchBeforetoggle(_, _, _)
dispatchBeforetoggle(w, n, newState) ==
    IF n = 0 THEN w
    ELSE dispatchBeforetoggle(beforetoggleHandler(w, newState), n - 1, newState)

\* popover.showPopover(): beforetoggle(open) is cancelable; when another
\* listener cancels it the popover stays closed.
showPopover(w, cancel) ==
    [dispatchBeforetoggle(w, w.handlers, "open") EXCEPT !.open = ~cancel]

\* popover.hidePopover(): beforetoggle(closed), then the popover is closed.
hidePopover(w) ==
    [dispatchBeforetoggle(w, w.handlers, "closed") EXCEPT !.open = FALSE]

\* resizeBody without the test of the flag.
resizeBodyIgnoringFlag(w) ==
    IF refs.popover /\ w.open THEN hidePopover(w) ELSE w

\* The function handed to debounce (lines 44-50).
resizeBody(w) ==
    IF closeOnResize
    THEN IF refs.popover /\ w.open THEN hidePopover(w) ELSE w
    ELSE w

\* One execution of the debounced function on behalf of event `ev` of the
\* current burst (0: an event that is not numbered).
execute(w, ev) ==
    LET w1 == resizeBody(w)
        closed == w.open /\ ~w1.open
    IN  [w1 EXCEPT !.burstExec = IF ev > 0 THEN ev ELSE @,
                   !.burstCloses = IF ev > 0 /\ closed THEN @ + 1 ELSE @]

\* A call of a debounced function: the pending timeout is cleared and a new
\* one of `wait` milliseconds is armed, so only the last call of a burst
\* executes.
debounced(w, ev, wait) ==
    [w EXCEPT !.timer = wait, !.timerOwner = ev]

\* resizeListener without debounce: every call executes the function.
resizeListenerUndebounced(w, ev) == execute(w, ev)

\* #resizeListener called for resize event `ev`: the function wrapped by
\* debounce with a wait of DebounceWait milliseconds.
resizeListener(w, ev) == debounced(w, ev, DebounceWait)

\* The window dispatches 'resize' to the registered listener.
dispatchResize(w, ev) ==
    IF w.listeners > 0 THEN resizeListener(w, ev) ELSE w

\* Component.connectedCallback: resolves the references and raises nothing.
superConnectedCallback(w) == w

\* requestIdleCallback(fn): fn is queued to run once, when the environment
\* is idle.
requestIdleCallback(w) == [w EXCEPT !.idle = @ + 1]

\* connectedCallback that runs the first recompute itself.
connectedCallbackEager(w) ==
    LET w1 == superConnectedCallback(w)
        w2 == [w1 EXCEPT !.handlers = IF refs.popover THEN @ + 1 ELSE @]
    IN  updatePosition(w2)

\* connectedCallback: after super.connectedCallback(),
\* popover?.addEventListener installs a beforetoggle handler when there is a
\* popover and is skipped when there is none; the first recompute is
\* requested for idle time.
connectedCallback(w) ==
    LET w1 == superConnectedCallback(w)
        w2 == [w1 EXCEPT !.handlers = IF refs.popover THEN @ + 1 ELSE @]
    IN  requestIdleCallback(w2)

\* The callback handed to requestIdleCallback.
idleCallback(w) == updatePosition([w EXCEPT !.idle = @ - 1])

\* disconnectedCallback that detaches the listener only from a closed popover.
disconnectedCallbackWhenClosed(w) ==
    IF w.open THEN w ELSE removeEventListener(w)

\* disconnectedCallback that also drops the requested idle callbacks.
disconnectedCallbackCancelsIdle(w) ==
    [removeEventListener(w) EXCEPT !.idle = 0]

\* disconnectedCallback
disconnectedCallback(w) == removeEventListener(w)

\* customElements.define(tag, class): defining a tag that is already
\* defined raises NotSupportedError.
customElementsDefine(w) ==
    IF w.defined
    THEN [w EXCEPT !.threw = TRUE, !.defineCalls = @ + 1]
    ELSE [w EXCEPT !.defined = TRUE, !.defineCalls = @ + 1]

\* registerElement without the test of customElements.get.
registerElementUnguarded(w) ==
    customElementsDefine([w EXCEPT !.evaluations = @ + 1])

\* The registration at the end of the module (lines 78-80).
registerElement(w) ==
    LET w1 == [w EXCEPT !.evaluations = @ + 1]
    IN  IF ~w1.defined THEN customElementsDefine(w1) ELSE w1

\* ------------------------------------------------------------------ actions
TypeOK ==
    /\ attr \in AttrStates
    /\ refs \in [popover : BOOLEAN, trigger : BOOLEAN]
    /\ connected \in BOOLEAN
    /\ connects \in 0..MaxConnects
    /\ popoverOpen \in BOOLEAN
    /\ windowListeners \in 0..1
    /\ toggleHandlers \in 0..MaxConnects
    /\ idlePending \in 0..MaxConnects
    /\ timer \in {NoTimer} \cup (0..DebounceWait)
    /\ threw \in BOOLEAN
    /\ defined \in BOOLEAN
    /\ defineCalls \in 0..1
    /\ evaluations \in 0..MaxEvaluations
    /\ recomputes \in Nat
    /\ sinceResize \in 0..DebounceWait
    /\ burstLen \in 0..MaxBurst
    /\ burstOk \in BOOLEAN
    /\ timerOwner \in 0..MaxBurst
    /\ burstExec \in 0..MaxBurst
    /\ burstCloses \in Nat

InitWidget ==
    /\ connected = FALSE
    /\ connects = 0
    /\ popoverOpen = FALSE
    /\ windowListeners = 0
    /\ toggleHandlers = 0
    /\ idlePending = 0
    /\ style = NoStyle
    /\ timer = NoTimer
    /\ threw = FALSE
    /\ lastOp = "init"
    /\ recomputes = 0
    /\ styleAtAttach = NoStyle
    /\ sinceResize = DebounceWait
    /\ burstLen = 0
    /\ burstOk = FALSE
    /\ timerOwner = 0
    /\ burstExec = 0
    /\ burstCloses = 0

\* The element as constructed, before it is attached: the module has been
\* evaluated and has defined the tag.
Init ==
    /\ attr \in AttrStates
    /\ refs \in [popover : BOOLEAN, trigger : BOOLEAN]
    /\ \E g \in Geometries : rect = g.rect /\ viewport = g.viewport
    /\ InitWidget
    /\ defined = TRUE
    /\ defineCalls = 1
    /\ evaluations = 1

\* The page before the module is evaluated: the tag is either undefined or
\* already defined by an earlier copy of the script.
InitRegister ==
    /\ attr \in AttrStates
    /\ refs \in [popover : BOOLEAN, trigger : BOOLEAN]
    /\ \E g \in Geometries : rect = g.rect /\ viewport = g.viewport
    /\ InitWidget
    /\ defined \in BOOLEAN
    /\ defineCalls = 0
    /\ evaluations = 0

\* The module is evaluated (again): its registration step runs.
EvaluateModule ==
    /\ evaluations < MaxEvaluations
    /\ Commit(registerElement(W))
    /\ lastOp' = "register"
    /\ UNCHANGED << attr, refs, connected, connects, rect, viewport,
                    sinceResize, burstLen, burstOk >>

\* The element is attached: connectedCallback runs.
Connect ==
    /\ evaluations > 0
    /\ defined
    /\ ~connected
    /\ connects < MaxConnects
    /\ connected' = TRUE
    /\ connects' = connects + 1
    /\ Commit(connectedCallback(W))
    /\ lastOp' = "connect"
    /\ UNCHANGED << attr, refs, rect, viewport, sinceResize, burstLen, burstOk >>

\* The element is detached: disconnectedCallback runs.
Teardown ==
    /\ connected
    /\ connected' = FALSE
    /\ Commit(disconnectedCallback(W))
    /\ lastOp' = "teardown"
    /\ UNCHANGED << attr, refs, connects, rect, viewport, sinceResize,
                    burstLen, burstOk >>

\* The environment is idle: a requested idle callback runs.
IdleCallback ==
    /\ idlePending > 0
    /\ Commit(idleCallback(W))
    /\ lastOp' = "idle"
    /\ UNCHANGED << attr, refs, connected, connects, rect, viewport,
                    sinceResize, burstLen, burstOk >>

\* The disclosure mechanism asks to show the popover.
ShowPopover(cancel) ==
    /\ refs.popover
    /\ ~popoverOpen
    /\ Commit(showPopover(W, cancel))
    /\ lastOp' = IF cancel THEN "showCancelled" ELSE "show"
    /\ UNCHANGED << attr, refs, connected, connects, rect, viewport,
                    sinceResize, burstLen, burstOk >>

\* The disclosure mechanism hides the popover.
HidePopover ==
    /\ refs.popover
    /\ popoverOpen
    /\ Commit(hidePopover(W))
    /\ lastOp' = "hide"
    /\ UNCHANGED << attr, refs, connected, connects, rect, viewport,
                    sinceResize, burstLen, burstOk >>

\* The window is resized to geometry g and dispatches 'resize'.  An event
\* less than DebounceWait after the previous one continues its burst.  The
\* events of a burst are numbered for as long as each of them reached the
\* listener with the flag set and the popover open.
ResizeEvent(g) ==
    LET newBurst == sinceResize >= DebounceWait
        pre == windowListeners > 0 /\ closeOnResize /\ popoverOpen
        ok == IF newBurst THEN pre ELSE burstOk /\ pre
        ev == IF ~ok THEN 0 ELSE IF newBurst THEN 1 ELSE burstLen + 1
        w0 == IF newBurst \/ ~ok
              THEN [W EXCEPT !.timerOwner = 0, !.burstExec = 0, !.burstCloses = 0]
              ELSE W
    IN  /\ ev <= MaxBurst
        /\ rect' = g.rect
        /\ viewport' = g.viewport
        /\ sinceResize' = 0
        /\ burstLen' = ev
        /\ burstOk' = ok
        /\ Commit(dispatchResize(w0, ev))
        /\ lastOp' = "resize"
        /\ UNCHANGED << attr, refs, connected, connects >>

\* The page scrolls or reflows: the trigger's rectangle changes, the window
\* does not.
Relayout(g) ==
    /\ g.viewport = viewport
    /\ g.rect # rect
    /\ rect' = g.rect
    /\ Commit(W)
    /\ lastOp' = "relayout"
    /\ UNCHANGED << attr, refs, connected, connects, viewport, sinceResize,
                    burstLen, burstOk >>

\* TickMs milliseconds pass.  A due timeout may run late.
Tick ==
    /\ timer > 0 \/ sinceResize < DebounceWait
    /\ sinceResize' = IF sinceResize + TickMs > DebounceWait THEN DebounceWait
                      ELSE sinceResize + TickMs
    /\ Commit([W EXCEPT !.timer = IF @ = NoTimer THEN NoTimer
                                  ELSE IF @ < TickMs THEN 0 ELSE @ - TickMs])
    /\ lastOp' = "tick"
    /\ UNCHANGED << attr, refs, connected, connects, rect, viewport,
                    burstLen, burstOk >>

\* The debounce timeout expires: the debounced function executes.
TimerFire ==
    /\ timer = 0
    /\ Commit(execute([W EXCEPT !.timer = NoTimer, !.timerOwner = 0], timerOwner))
    /\ lastOp' = "fire"
    /\ UNCHANGED << attr, refs, connected, connects, rect, viewport,
                    sinceResize, burstLen, burstOk >>

\* The widget just attached, with both references, in any geometry of the
\* grid; the geometry stays as it is.
InitRecompute ==
    /\ attr = [present |-> TRUE, value |-> ""]
    /\ refs = [popover |-> TRUE, trigger |-> TRUE]
    /\ \E g \in GridGeometries : rect = g.rect /\ viewport = g.viewport
    /\ connected = TRUE
    /\ connects = 1
    /\ popoverOpen = FALSE
    /\ windowListeners = 0
    /\ toggleHandlers = 1
    /\ idlePending = 1
    /\ style = NoStyle
    /\ timer = NoTimer
    /\ threw = FALSE
    /\ defined = TRUE
    /\ defineCalls = 1
    /\ evaluations = 1
    /\ lastOp = "connect"
    /\ recomputes = 0
    /\ styleAtAttach = NoStyle
    /\ sinceResize = DebounceWait
    /\ burstLen = 0
    /\ burstOk = FALSE
    /\ timerOwner = 0
    /\ burstExec = 0
    /\ burstCloses = 0

\* The registration step among the life-cycle of the widget.
NextRegister ==
    \/ EvaluateModule
    \/ Connect
    \/ Teardown
    \/ IdleCallback
    \/ \E cancel \in BOOLEAN : ShowPopover(cancel)
    \/ HidePopover

NextRecompute ==
    \/ IdleCallback
    \/ \E cancel \in BOOLEAN : ShowPopover(cancel)
    \/ HidePopover

Next ==
    \/ Connect
    \/ Teardown
    \/ IdleCallback
    \/ \E cancel \in BOOLEAN : ShowPopover(cancel)
    \/ HidePopover
    \/ \E g \in Geometries : ResizeEvent(g)
    \/ \E g \in Geometries : Relayout(g)
    \/ Tick
    \/ TimerFire

Spec == Init /\ [][Next]_vars

\* The registration of the custom element.
SpecRegister == InitRegister /\ [][NextRegister]_vars

\* The recompute alone, over the grid of geometries.
SpecRecompute == InitRecompute /\ [][NextRecompute]_vars

\* ----------------------------------------------------------------- claims
Torn == connects > 0 /\ ~connected

\* C1: in every reachable state the resize listener is registered on the
\* window only if the popover is open.
C1_ListenerOnlyWhileOpen == windowListeners > 0 => popoverOpen

\* C2: every teardown step, with the popover open or closed, leaves no
\* registration of the resize listener on the window, and a resize event
\* dispatched next does not arm the debounce timer (the handler is not
\* invoked), does not close the popover and does not change the properties.
C2_TeardownDetaches ==
    [][ /\ (connected /\ ~connected') => windowListeners' = 0
        /\ (lastOp = "teardown" /\ lastOp' = "resize") =>
              /\ timer' = timer
              /\ popoverOpen' = popoverOpen
              /\ style' = style
              /\ windowListeners' = 0 ]_vars

\* A resize event was dispatched after a teardown that found the popover open.
C2_Witness ==
    Torn /\ lastOp = "resize" /\ popoverOpen /\ windowListeners = 0

\* C3: when the attribute is present, with any value, and the popover is
\* open, the debounced execution closes the popover.
C3_PresenceEnables ==
    [][ (lastOp' = "fire" /\ attr.present /\ refs.popover /\ popoverOpen)
          => ~popoverOpen' ]_vars

\* C4: with the attribute absent, an open popover is closed by the
\* disclosure mechanism only: no debounced execution, however many resize
\* events came before, closes it.
C4_UnsetNeverCloses ==
    [][ (~attr.present /\ popoverOpen /\ ~popoverOpen') => lastOp' = "hide" ]_vars

\* A debounced execution ran on an open popover with the attribute absent.
C4_Witness ==
    ~attr.present /\ lastOp = "fire" /\ popoverOpen /\ windowListeners > 0

\* C5: in a burst of resize events each received with the flag set and the
\* popover open, at most one close action is performed, and no event but
\* the last of the burst has had its debounced execution run.
C5_BurstClosesOnce ==
    burstOk => burstCloses <= 1 /\ burstExec \in {0, burstLen}

\* A burst of several events was closed by the execution of its last event.
C5_Witness ==
    burstOk /\ burstLen >= 2 /\ burstCloses = 1 /\ burstExec = burstLen
        /\ lastOp = "fire" /\ ~popoverOpen

BothRefs == refs.popover /\ refs.trigger

\* The four properties of s hold the offsets of rectangle r in viewport v.
AnchorsMatch(s, r, v) ==
    /\ Unset \notin {s.top, s.right, s.bottom, s.left}
    /\ ParseNumber(s.top) = r.top
    /\ ParseNumber(s.left) = r.left
    /\ ParseNumber(s.right) = v.innerWidth - r.right
    /\ ParseNumber(s.bottom) = v.innerHeight - r.bottom

\* C6: on every transition to open delivered to the widget's handler, the
\* recompute has been applied when the resize listener is attached: with
\* both references the four properties then hold the offsets of the
\* trigger's current rectangle (with a reference missing the recompute
\* leaves them as they were); so whenever the listener is registered with
\* both references present, the properties have been written.
C6_RecomputeBeforeListen ==
    [][ /\ (lastOp' \in {"show", "showCancelled"} /\ toggleHandlers > 0) =>
              IF BothRefs THEN AnchorsMatch(styleAtAttach', rect, viewport)
              ELSE styleAtAttach' = style
        /\ (windowListeners' > 0 /\ BothRefs) => styleAtAttach' # NoStyle ]_vars

\* The popover opened after the trigger had moved since the last recompute,
\* and the listener was attached to freshly written properties.
C6_Witness ==
    /\ lastOp = "show" /\ BothRefs /\ windowListeners = 1 /\ recomputes = 1
    /\ AnchorsMatch(styleAtAttach, rect, viewport)
    /\ rect = Rect(0 - 10, 5, 1005, 20)

C8_AnchorsFromRect ==
    (recomputes > 0 /\ BothRefs) =>
        /\ AnchorsMatch(style, rect, viewport)
        /\ (rect = Rect(50, 20, 120, 80) /\ viewport = Viewport(1000, 800)) =>
              style = [ top    |-> <<"5", "0">>,
                        left   |-> <<"2", "0">>,
                        right  |-> <<"8", "8", "0">>,
                        bottom |-> <<"7", "2", "0">> ]

\* The documented scenario after its recompute.
C8_Witness ==
    /\ recomputes > 0 /\ BothRefs
    /\ rect = Rect(50, 20, 120, 80) /\ viewport = Viewport(1000, 800)
    /\ style.right = <<"8", "8", "0">>

\* C9: with the popover or the trigger reference missing, no step of the
\* widget (attachment, idle recompute, toggle notification) raises an error
\* or changes any of the four properties.
C9_MissingRefNoOp ==
    [][ ~BothRefs => (~threw' /\ style' = style /\ style' = NoStyle) ]_vars

\* A recompute ran on a toggle notification with the trigger missing.
C9_Witness ==
    /\ refs.popover /\ ~refs.trigger
    /\ recomputes > 0 /\ lastOp = "show"
    /\ ~threw /\ style = NoStyle

\* C10: a recompute that follows a recompute, with the trigger rectangle
\* and the viewport unchanged, leaves the four properties as the first
\* left them.
C10_RecomputeIdempotent ==
    [][ (recomputes > 0 /\ recomputes' > 0 /\ rect' = rect /\ viewport' = viewport)
          => style' = style ]_vars

\* Two recomputes ran in succession (the idle one, then one on opening).
C10_Witness ==
    /\ idlePending = 0 /\ lastOp = "show" /\ recomputes > 0
    /\ AnchorsMatch(style, rect, viewport)

\* C11: connectedCallback writes no layout property and runs no recompute:
\* it leaves one more idle callback requested, and the recompute of that
\* request runs in a later step of its own.
C11_InitialRecomputeDeferred ==
    [][ /\ lastOp' = "connect" =>
              /\ recomputes' = 0
              /\ style' = style
              /\ idlePending' = idlePending + 1
        /\ (idlePending' < idlePending) => (lastOp' = "idle" /\ recomputes' = 1) ]_vars

\* The widget is attached, nothing is written yet, the recompute is pending.
C11_Witness ==
    /\ lastOp = "connect" /\ BothRefs /\ connects = 1
    /\ idlePending = 1 /\ recomputes = 0 /\ style = NoStyle

\* C13: teardown leaves the requested idle callback pending; the idle
\* callback, run before or after teardown, writes the four properties from
\* the trigger's current rectangle when both references exist, and never
\* changes the registration of the resize listener.
C13_IdleSurvivesTeardown ==
    [][ /\ lastOp' = "teardown" => idlePending' = idlePending
        /\ lastOp' = "idle" =>
              /\ windowListeners' = windowListeners
              /\ BothRefs => AnchorsMatch(style', rect, viewport) ]_vars

\* The only idle callback ran after the widget was torn down and wrote the
\* properties.
C13_Witness ==
    /\ Torn /\ connects = 1 /\ lastOp = "idle" /\ idlePending = 0
    /\ BothRefs /\ AnchorsMatch(style, rect, viewport)
    /\ windowListeners = 0

\* C14: the window holds at most one registration of the resize listener;
\* a close notification leaves none.
C14_AtMostOneRegistration ==
    [][ /\ windowListeners' <= 1
        /\ lastOp' = "hide" => windowListeners' = 0 ]_vars

\* One open notification ran two handlers, each adding the listener, and
\* the window holds one registration.
C14_Witness ==
    lastOp = "show" /\ toggleHandlers = 2 /\ recomputes = 2 /\ windowListeners = 1

\* C15: when the debounced execution closes the popover the listener is
\* detached; a resize event that finds no listener arms no timer; and the
\* listener is registered again by an open notification only.
C15_HandlerCloseDetaches ==
    [][ /\ (lastOp' = "fire" /\ popoverOpen /\ ~popoverOpen') => windowListeners' = 0
        /\ (lastOp' = "resize" /\ windowListeners = 0) => timer' = timer
        /\ (windowListeners = 0 /\ windowListeners' > 0) =>
              lastOp' \in {"show", "showCancelled"} ]_vars

\* The debounced execution closed the popover of an attached widget.
C15_Witness ==
    /\ lastOp = "fire" /\ connected /\ closeOnResize /\ recomputes > 0
    /\ ~popoverOpen /\ windowListeners = 0 /\ timer = NoTimer

\* C16: once teardown has run, the resize listener is not registered.
C16_NoListenerAfterTeardown == Torn => windowListeners = 0

\* C17: a debounced execution that was pending when teardown ran does not
\* close the popover: on a torn-down widget whose listener has not been
\* registered again (so that the timeout was armed before teardown), the
\* execution leaves the popover as it is.
C17_NoCloseAfterTeardown ==
    [][ (Torn /\ windowListeners = 0 /\ lastOp' = "fire")
          => popoverOpen' = popoverOpen ]_vars

\* C18: an open transition of the popover of a widget that has been attached
\* performs the recompute exactly once.
C18_OneRecomputePerOpen ==
    (lastOp = "show" /\ connects > 0) => recomputes = 1

\* C12: the module makes at most one customElements.define call, and an
\* evaluation of the registration step that finds the tag defined makes no
\* define call, raises nothing and changes nothing of the registry or the
\* widget.
C12_RegisteredOnce ==
    [][ /\ defineCalls' <= 1
        /\ lastOp' = "register" =>
              /\ defined' /\ ~threw'
              /\ defined =>
                    /\ defineCalls' = defineCalls
                    /\ << connected, popoverOpen, windowListeners, toggleHandlers,
                          idlePending, style, timer >>' =
                       << connected, popoverOpen, windowListeners, toggleHandlers,
                          idlePending, style, timer >> ]_vars

\* The module defined the tag on its first evaluation and was evaluated
\* again while a widget was attached.
C12_Witness ==
    /\ lastOp = "register" /\ evaluations = 2 /\ defineCalls = 1
    /\ defined /\ ~threw /\ connected

====
